---------------------------- MODULE Spec2Model ----------------------------
(***************************************************************************)
(* SingleLinkedList<Type> (single-linked-list.h) as a state machine over   *)
(* an explicit heap.                                                       *)
(*                                                                         *)
(* Pointers are integers: NULL is nullptr, 1..MaxNodes are the addresses   *)
(* operator new can return, and -i is the address of the head_ member      *)
(* (the sentinel) of list object i.  Objects 1 and 2 are the program's     *)
(* lists; object 3 is the local `tmp` of the constructors and object 4 is  *)
(* the local `copy_rhs` of operator=.                                      *)
(*                                                                         *)
(* A memory m is a record                                                  *)
(*    live      : the addresses of the Nodes allocated and not deleted     *)
(*    next_node : Node::next_node of every sentinel and every live Node    *)
(*    value     : Node::value of every live Node                           *)
(*    size_     : SingleLinkedList::size_ of every list object             *)
(*    fault     : a delete-expression was given a pointer that is not a    *)
(*                live Node, or a store went through such a pointer        *)
(* Every method is an operator from memories to memories, translated       *)
(* statement by statement; an action applies one method to the current     *)
(* memory.                                                                 *)
(*                                                                         *)
(* A Node address means nothing beyond its identity, so two memories that  *)
(* differ by a renaming of the Node addresses are the same program state.  *)
(* Each action stores the representative Canon(m) of the memory m the      *)
(* method produced (symmetry reduction), the pointers recorded in `last`   *)
(* renamed with it.  Statements about the identity of Nodes across a call  *)
(* are therefore made on the method's own result m, before the renaming.   *)
(***************************************************************************)
EXTENDS Integers, Sequences, FiniteSets, TLC

\* Number of addresses the allocator can hand out; when all are live the
\* new-expression throws std::bad_alloc.
MaxNodes == 4

\* Sample values of the element type Type, ordered by <.
Values == {1, 2}

NULL == 0

Lists == {1, 2}
TmpObj == 3
CopyRhsObj == 4
Objects == Lists \cup {TmpObj, CopyRhsObj}

Nodes == 1..MaxNodes

VARIABLES
    alive,      \* alive[l]: list object l is constructed and not destroyed
    live,       \* heap: allocated Node addresses
    next_node,  \* heap: Node::next_node
    value,      \* heap: Node::value
    size_,      \* SingleLinkedList::size_
    fault,      \* heap: a destroyed Node was deleted again or written to
    last        \* the call made by the last step: its arguments (pos as it
                \* was passed, val and vals when Nodes were made of them) and
                \* its result (ret as renamed by Canon; freed: how many Nodes
                \* a Clear() or a destructor deleted)

vars == <<alive, live, next_node, value, size_, fault, last>>

\* &head_ of list object l.
HeadOf(l) == -l

Sentinels == {HeadOf(l) : l \in Objects}

Mem ==
    [live |-> live, next_node |-> next_node, value |-> value, size_ |-> size_,
     fault |-> fault]

EmptyMem ==
    [live |-> {}, next_node |-> [p \in Sentinels |-> NULL],
     value |-> [p \in {} |-> NULL], size_ |-> [o \in Objects |-> 0],
     fault |-> FALSE]

Free(m) == Nodes \ m.live

\* Sequences over S of length at most n.
SeqsUpTo(S, n) == UNION {[1..k -> S] : k \in 0..n}

---------------------------------------------------------------------------
\* The address operator new returns: the allocator is first-fit.  (Which free
\* address it returns makes no difference up to renaming.)
Alloc(m) == CHOOSE a \in Free(m) : \A b \in Free(m) : a <= b

\* Whether the i-th new-expression of a call throws: the allocator has
\* nothing left (std::bad_alloc), or the caller's failAt says that Type's copy
\* constructor throws at that element.
NewThrows(m, i, failAt) == Free(m) = {} \/ i = failAt

\* Node(const Type& val, Node* next) built at address a.
NewNode(m, a, val, next) ==
    [m EXCEPT !.live = m.live \cup {a},
              !.next_node = [p \in (DOMAIN m.next_node) \cup {a} |->
                                IF p = a THEN next ELSE m.next_node[p]],
              !.value = [p \in (DOMAIN m.value) \cup {a} |->
                                IF p = a THEN val ELSE m.value[p]]]

\* delete p.  The Node's fields leave the memory: a later read of them has
\* no value.  Deleting what is not a live Node is recorded in fault.
DeleteNode(m, p) ==
    [m EXCEPT !.live = m.live \ {p},
              !.next_node = [q \in (DOMAIN m.next_node) \ {p} |-> m.next_node[q]],
              !.value = [q \in (DOMAIN m.value) \ {p} |-> m.value[q]],
              !.fault = @ \/ p \notin m.live]

\* p->next_node = q, p a sentinel or a Node.  A store through a pointer to a
\* destroyed Node is recorded in fault.
SetNext(m, p, q) ==
    IF p \in DOMAIN m.next_node THEN [m EXCEPT !.next_node[p] = q]
    ELSE [m EXCEPT !.fault = TRUE]

\* begin(): Iterator{head_.next_node};  end(): Iterator{nullptr};
\* before_begin(): Iterator{&head_}.
begin(m, l) == m.next_node[HeadOf(l)]
end(m, l) == NULL
before_begin(m, l) == HeadOf(l)

\* BasicIterator::operator++ : node_ = (*node_).next_node.
Incr(m, node_) == m.next_node[node_]

\* BasicIterator::operator* : node_->value.
Deref(m, node_) == m.value[node_]

GetSize(m, l) == m.size_[l]

IsEmpty(m, l) == IF m.next_node[HeadOf(l)] = NULL THEN TRUE ELSE FALSE

\* The Nodes visited by ++ from iterator p up to range_e, at most fuel of
\* them (fuel keeps the walk finite on a cyclic or dangling chain).
RECURSIVE Range(_, _, _, _)
Range(m, p, range_e, fuel) ==
    IF p = range_e \/ fuel = 0 \/ p \notin m.live THEN <<>>
    ELSE <<p>> \o Range(m, Incr(m, p), range_e, fuel - 1)

\* The Nodes of list l front to back, and their values.
Chain(m, l) == Range(m, begin(m, l), end(m, l), MaxNodes + 1)
ChainSet(m, l) == {Chain(m, l)[i] : i \in DOMAIN Chain(m, l)}
Elems(m, l) == [i \in DOMAIN Chain(m, l) |-> Deref(m, Chain(m, l)[i])]

---------------------------------------------------------------------------
\* Create(range_b, range_e) on list self, the range holding vals.
RECURSIVE CreateLoop(_, _, _, _, _, _)
CreateLoop(m, self, prev, vals, i, failAt) ==
    IF i > Len(vals) THEN [mem |-> m, threw |-> FALSE, at |-> 0]
    ELSE IF NewThrows(m, i, failAt) THEN [mem |-> m, threw |-> TRUE, at |-> i]
    ELSE LET a  == Alloc(m)
             m1 == NewNode(m, a, vals[i], NULL)
             m2 == SetNext(m1, prev, a)
             m3 == [m2 EXCEPT !.size_[self] = @ + 1]
         IN  CreateLoop(m3, self, a, vals, i + 1, failAt)

\* Create(range_b, range_e) linking every new Node right after the sentinel
\* instead of after the Node made before it.
RECURSIVE CreateLoop_PushesFront(_, _, _, _, _)
CreateLoop_PushesFront(m, self, vals, i, failAt) ==
    IF i > Len(vals) THEN [mem |-> m, threw |-> FALSE, at |-> 0]
    ELSE IF NewThrows(m, i, failAt) THEN [mem |-> m, threw |-> TRUE, at |-> i]
    ELSE LET a  == Alloc(m)
             m1 == NewNode(m, a, vals[i], m.next_node[HeadOf(self)])
             m2 == [m1 EXCEPT !.next_node[HeadOf(self)] = a]
             m3 == [m2 EXCEPT !.size_[self] = @ + 1]
         IN  CreateLoop_PushesFront(m3, self, vals, i + 1, failAt)

Create_PushesFront(m, self, vals, failAt) == CreateLoop_PushesFront(m, self, vals, 1, failAt)

Create(m, self, vals, failAt) == CreateLoop(m, self, HeadOf(self), vals, 1, failAt)

\* Clear().
RECURSIVE ClearLoop(_, _)
ClearLoop(m, self) ==
    IF m.next_node[HeadOf(self)] # NULL
    THEN LET next_first == m.next_node[m.next_node[HeadOf(self)]]
             m1 == DeleteNode(m, m.next_node[HeadOf(self)])
             m2 == [m1 EXCEPT !.next_node[HeadOf(self)] = next_first]
         IN  ClearLoop(m2, self)
    ELSE m

\* Clear() without its size_ = 0.
ClearOp_KeepsSize(m, self) == ClearLoop(m, self)

ClearOp(m, self) == [ClearLoop(m, self) EXCEPT !.size_[self] = 0]

\* The operands of the delete-expressions Clear() evaluates, in order.
RECURSIVE ClearDeleted(_, _)
ClearDeleted(m, self) ==
    IF m.next_node[HeadOf(self)] # NULL
    THEN LET next_first == m.next_node[m.next_node[HeadOf(self)]]
             m1 == DeleteNode(m, m.next_node[HeadOf(self)])
             m2 == [m1 EXCEPT !.next_node[HeadOf(self)] = next_first]
         IN  <<m.next_node[HeadOf(self)]>> \o ClearDeleted(m2, self)
    ELSE <<>>

\* swap(other) exchanging the links and leaving each size_ where it was.
SwapOp_LinksOnly(m, self, other) ==
    LET tmp_p == m.next_node[HeadOf(self)]
        m1 == [m  EXCEPT !.next_node[HeadOf(self)] = m.next_node[HeadOf(other)]]
        m3 == [m1 EXCEPT !.next_node[HeadOf(other)] = tmp_p]
    IN  m3

\* swap(other).
SwapOp(m, self, other) ==
    LET tmp_p == m.next_node[HeadOf(self)]
        tmp_s == m.size_[self]
        m1 == [m  EXCEPT !.next_node[HeadOf(self)] = m.next_node[HeadOf(other)]]
        m2 == [m1 EXCEPT !.size_[self] = m1.size_[other]]
        m3 == [m2 EXCEPT !.next_node[HeadOf(other)] = tmp_p]
        m4 == [m3 EXCEPT !.size_[other] = tmp_s]
    IN  m4

\* ~SingleLinkedList().
DtorOp(m, self) == ClearOp(m, self)

\* The constructors' body filling *this instead of a local tmp: when Create
\* throws, the object was never constructed and no destructor runs for it.
RangeCtorOp_FillsThis(m, self, vals, failAt) == Create(m, self, vals, failAt)

\* The body the two converting constructors share, the range holding vals:
\* tmp is filled, swapped into *this and destroyed; when Create throws, tmp is
\* destroyed by the unwinding and *this was never constructed.
RangeCtorOp(m, self, vals, failAt) ==
    LET c == Create(m, TmpObj, vals, failAt)
    IN  IF c.threw
        THEN [c EXCEPT !.mem = DtorOp(c.mem, TmpObj)]
        ELSE [c EXCEPT !.mem = DtorOp(SwapOp(c.mem, self, TmpObj), TmpObj)]

\* SingleLinkedList(std::initializer_list<Type> values).
InitListCtorOp(m, self, values, failAt) == RangeCtorOp(m, self, values, failAt)

\* A copy constructor that copies the members (head_.next_node and size_)
\* instead of the Nodes.
CopyCtorOp_Shallow(m, self, other, failAt) ==
    [mem |-> [m EXCEPT !.next_node[HeadOf(self)] = m.next_node[HeadOf(other)],
                       !.size_[self] = m.size_[other]],
     threw |-> FALSE, at |-> 0]

\* SingleLinkedList(const SingleLinkedList& other).
CopyCtorOp(m, self, other, failAt) == RangeCtorOp(m, self, Elems(m, other), failAt)

\* PushFront(value) giving the new Node a null next-link instead of the
\* current first Node.
PushFrontOp_DropsRest(m, self, val, failAt) ==
    IF NewThrows(m, 1, failAt) THEN [mem |-> m, threw |-> TRUE, at |-> 1]
    ELSE LET a  == Alloc(m)
             m1 == NewNode(m, a, val, NULL)
             m2 == [m1 EXCEPT !.next_node[HeadOf(self)] = a]
             m3 == [m2 EXCEPT !.size_[self] = @ + 1]
         IN  [mem |-> m3, threw |-> FALSE, at |-> 0]

\* PushFront(value) without its ++size_.
PushFrontOp_NoIncrement(m, self, val, failAt) ==
    IF NewThrows(m, 1, failAt) THEN [mem |-> m, threw |-> TRUE, at |-> 1]
    ELSE LET a  == Alloc(m)
             m1 == NewNode(m, a, val, m.next_node[HeadOf(self)])
             m2 == [m1 EXCEPT !.next_node[HeadOf(self)] = a]
         IN  [mem |-> m2, threw |-> FALSE, at |-> 0]

\* PushFront(value).
PushFrontOp(m, self, val, failAt) ==
    IF NewThrows(m, 1, failAt) THEN [mem |-> m, threw |-> TRUE, at |-> 1]
    ELSE LET a  == Alloc(m)
             m1 == NewNode(m, a, val, m.next_node[HeadOf(self)])
             m2 == [m1 EXCEPT !.next_node[HeadOf(self)] = a]
             m3 == [m2 EXCEPT !.size_[self] = @ + 1]
         IN  [mem |-> m3, threw |-> FALSE, at |-> 0]

\* InsertAfter(pos, value) counting the element before creating its Node.
InsertAfterOp_CountFirst(m, self, pos, val, failAt) ==
    LET m0 == [m EXCEPT !.size_[self] = @ + 1]
    IN  IF NewThrows(m0, 1, failAt) THEN [mem |-> m0, threw |-> TRUE, at |-> 1, ret |-> NULL]
        ELSE LET inserted == Alloc(m0)
                 m1 == NewNode(m0, inserted, val, m0.next_node[pos])
                 m2 == SetNext(m1, pos, inserted)
             IN  [mem |-> m2, threw |-> FALSE, at |-> 0, ret |-> inserted]

\* InsertAfter(pos, value) linking the new Node after the sentinel instead
\* of after pos.
InsertAfterOp_AtFront(m, self, pos, val, failAt) ==
    IF NewThrows(m, 1, failAt) THEN [mem |-> m, threw |-> TRUE, at |-> 1, ret |-> NULL]
    ELSE LET inserted == Alloc(m)
             m1 == NewNode(m, inserted, val, m.next_node[HeadOf(self)])
             m2 == [m1 EXCEPT !.next_node[HeadOf(self)] = inserted]
             m3 == [m2 EXCEPT !.size_[self] = @ + 1]
         IN  [mem |-> m3, threw |-> FALSE, at |-> 0, ret |-> inserted]

\* InsertAfter(pos, value).
InsertAfterOp(m, self, pos, val, failAt) ==
    IF NewThrows(m, 1, failAt) THEN [mem |-> m, threw |-> TRUE, at |-> 1, ret |-> NULL]
    ELSE LET inserted == Alloc(m)
             m1 == NewNode(m, inserted, val, m.next_node[pos])
             m2 == SetNext(m1, pos, inserted)
             m3 == [m2 EXCEPT !.size_[self] = @ + 1]
         IN  [mem |-> m3, threw |-> FALSE, at |-> 0, ret |-> inserted]

\* EraseAfter(pos) returning pos instead of the Node after the erased one.
EraseAfterOp_ReturnsPos(m, self, pos) ==
    LET eraze_me == m.next_node[pos]
        next_to_erazed == m.next_node[eraze_me]
        m1 == SetNext(m, pos, next_to_erazed)
        m2 == DeleteNode(m1, eraze_me)
        m3 == [m2 EXCEPT !.size_[self] = @ - 1]
    IN  [mem |-> m3, ret |-> pos]

\* EraseAfter(pos) without its --size_.
EraseAfterOp_NoDecrement(m, self, pos) ==
    LET eraze_me == m.next_node[pos]
        next_to_erazed == m.next_node[eraze_me]
        m1 == SetNext(m, pos, next_to_erazed)
        m2 == DeleteNode(m1, eraze_me)
    IN  [mem |-> m2, ret |-> next_to_erazed]

\* EraseAfter(pos) that, when a Node follows the one to erase, moves that
\* Node's value and link into the one to erase and deletes the following
\* Node instead.
EraseAfterOp_MovesValue(m, self, pos) ==
    LET eraze_me == m.next_node[pos]
        next_to_erazed == m.next_node[eraze_me]
    IN  IF next_to_erazed = NULL
        THEN LET m1 == SetNext(m, pos, next_to_erazed)
                 m2 == DeleteNode(m1, eraze_me)
                 m3 == [m2 EXCEPT !.size_[self] = @ - 1]
             IN  [mem |-> m3, ret |-> next_to_erazed]
        ELSE LET m1 == [m EXCEPT !.value[eraze_me] = m.value[next_to_erazed]]
                 m2 == SetNext(m1, eraze_me, m.next_node[next_to_erazed])
                 m3 == DeleteNode(m2, next_to_erazed)
                 m4 == [m3 EXCEPT !.size_[self] = @ - 1]
             IN  [mem |-> m4, ret |-> eraze_me]

\* EraseAfter(pos).
EraseAfterOp(m, self, pos) ==
    LET eraze_me == m.next_node[pos]
        next_to_erazed == m.next_node[eraze_me]
        m1 == SetNext(m, pos, next_to_erazed)
        m2 == DeleteNode(m1, eraze_me)
        m3 == [m2 EXCEPT !.size_[self] = @ - 1]
    IN  [mem |-> m3, ret |-> next_to_erazed]

\* PopFront().
PopFrontOp(m, self) == EraseAfterOp(m, self, before_begin(m, self)).mem

\* operator=(rhs) written without the copy: *this is cleared and refilled in
\* place from rhs's elements.
AssignOp_InPlace(m, self, rhs, failAt) ==
    LET vals == Elems(m, rhs)
    IN  Create(ClearOp(m, self), self, vals, failAt)

\* operator=(rhs) that clears *this and then copies rhs into it.
AssignOp_ClearThenCopy(m, self, rhs, failAt) ==
    LET m1 == ClearOp(m, self)
    IN  Create(m1, self, Elems(m1, rhs), failAt)

\* operator=(rhs): copy_rhs is copy-constructed, swapped with *this and
\* destroyed; when the copy constructor throws nothing else runs.
AssignOp(m, self, rhs, failAt) ==
    LET c == CopyCtorOp(m, CopyRhsObj, rhs, failAt)
    IN  IF c.threw THEN c
        ELSE [c EXCEPT !.mem = DtorOp(SwapOp(c.mem, self, CopyRhsObj), CopyRhsObj)]

\* swap(lhs, rhs) calling lhs.swap(lhs).
FreeSwapOp_SwapsWithItself(m, lhs, rhs) == SwapOp(m, lhs, lhs)

\* swap(lhs, rhs), the free function.
FreeSwapOp(m, lhs, rhs) == SwapOp(m, lhs, rhs)

---------------------------------------------------------------------------
\* std::equal(first1, last1, first2), called by operator== with
\* (lhs.begin(), lhs.end(), rhs.begin()): ub says that *first2 was evaluated
\* with first2 == nullptr, which is undefined behaviour.
RECURSIVE EqualLoop(_, _, _, _)
EqualLoop(m, first1, last1, first2) ==
    IF first1 = last1 THEN [res |-> TRUE, ub |-> FALSE]
    ELSE IF first2 = NULL THEN [res |-> FALSE, ub |-> TRUE]
    ELSE IF ~(Deref(m, first1) = Deref(m, first2)) THEN [res |-> FALSE, ub |-> FALSE]
    ELSE EqualLoop(m, Incr(m, first1), last1, Incr(m, first2))

\* operator==(lhs, rhs) and operator!=(lhs, rhs).
OperatorEq(m, lhs, rhs) == EqualLoop(m, begin(m, lhs), end(m, lhs), begin(m, rhs))
OperatorNe(m, lhs, rhs) == [OperatorEq(m, lhs, rhs) EXCEPT !.res = ~@]

\* std::lexicographical_compare(first1, last1, first2, last2), called by
\* operator< with (lhs.begin(), lhs.end(), rhs.begin(), rhs.end()).
RECURSIVE LexicographicalCompare(_, _, _, _, _)
LexicographicalCompare(m, first1, last1, first2, last2) ==
    IF first1 # last1 /\ first2 # last2
    THEN IF Deref(m, first1) < Deref(m, first2) THEN TRUE
         ELSE IF Deref(m, first2) < Deref(m, first1) THEN FALSE
         ELSE LexicographicalCompare(m, Incr(m, first1), last1, Incr(m, first2), last2)
    ELSE first1 = last1 /\ first2 # last2

\* A comparison that stops at the end of either range and answers false:
\* only a differing element makes a list smaller.
RECURSIVE LexicographicalCompare_ElementsOnly(_, _, _, _, _)
LexicographicalCompare_ElementsOnly(m, first1, last1, first2, last2) ==
    IF first1 # last1 /\ first2 # last2
    THEN IF Deref(m, first1) < Deref(m, first2) THEN TRUE
         ELSE IF Deref(m, first2) < Deref(m, first1) THEN FALSE
         ELSE LexicographicalCompare_ElementsOnly(m, Incr(m, first1), last1,
                                                  Incr(m, first2), last2)
    ELSE FALSE

\* operator< that tells a list smaller only by a smaller element.
OperatorLt_ElementsOnly(m, lhs, rhs) ==
    [res |-> LexicographicalCompare_ElementsOnly(m, begin(m, lhs), end(m, lhs),
                                                 begin(m, rhs), end(m, rhs)),
     ub |-> FALSE]

\* operator<, operator<=, operator> and operator>= (lhs, rhs).
OperatorLt(m, lhs, rhs) ==
    [res |-> LexicographicalCompare(m, begin(m, lhs), end(m, lhs), begin(m, rhs), end(m, rhs)),
     ub |-> FALSE]
OperatorLe(m, lhs, rhs) == [OperatorLt(m, rhs, lhs) EXCEPT !.res = ~@]
OperatorGt(m, lhs, rhs) == OperatorLt(m, rhs, lhs)
OperatorGe(m, lhs, rhs) == [OperatorGt(m, rhs, lhs) EXCEPT !.res = ~@]

\* The values a call can return: anything once its behaviour is undefined.
Outcomes(r) == IF r.ub THEN BOOLEAN ELSE {r.res}

---------------------------------------------------------------------------
\* The live Nodes in the order lists 1, 2 (then the locals) reach them, then
\* the unreachable ones by address.
RECURSIVE Dedup(_)
Dedup(s) ==
    IF s = <<>> THEN <<>>
    ELSE LET d == Dedup(SubSeq(s, 1, Len(s) - 1))
         IN  IF \E i \in DOMAIN d : d[i] = s[Len(s)] THEN d ELSE Append(d, s[Len(s)])

RECURSIVE Ascending(_)
Ascending(S) ==
    IF S = {} THEN <<>>
    ELSE LET a == CHOOSE x \in S : \A y \in S : x <= y
         IN  <<a>> \o Ascending(S \ {a})

NodeOrder(m) ==
    LET reached == Dedup(Chain(m, 1) \o Chain(m, 2) \o Chain(m, TmpObj) \o Chain(m, CopyRhsObj))
    IN  reached \o Ascending(m.live \ {reached[i] : i \in DOMAIN reached})

IndexIn(ord, p) == CHOOSE i \in DOMAIN ord : ord[i] = p

\* Pointer p after the renaming that numbers the live Nodes of m in NodeOrder.
Renamed(m, p) == IF p \in m.live THEN IndexIn(NodeOrder(m), p) ELSE p

\* The representative of m among its renamings.
Canon(m) ==
    LET ord == NodeOrder(m)
        n == Len(ord)
        ren(p) == IF p \in m.live THEN IndexIn(ord, p) ELSE p
    IN  [live |-> 1..n,
         next_node |-> [q \in Sentinels \cup (1..n) |->
                          IF q \in Sentinels THEN ren(m.next_node[q])
                          ELSE ren(m.next_node[ord[q]])],
         value |-> [q \in 1..n |-> m.value[ord[q]]],
         size_ |-> m.size_,
         fault |-> m.fault]

\* The positions a caller may pass to InsertAfter on list l: before_begin()
\* and the iterators reached from begin() before end().
Positions(m, l) == {before_begin(m, l)} \cup ChainSet(m, l)

\* The positions a caller may pass to EraseAfter: a real Node follows.
ErasePositions(m, l) == {p \in Positions(m, l) : m.next_node[p] # NULL}

Min(a, b) == IF a < b THEN a ELSE b

\* The initializer lists a constructor is given: up to one element more than
\* the allocator can serve (a longer one fails at that same element).
InitLists(m) == SeqsUpTo(Values, Min(MaxNodes, Cardinality(Free(m)) + 1))

\* The elements of an n-element call at which Type's copy constructor can
\* throw (0: at none): it runs only after operator new returned a Node.
FailPoints(m, n) == 0..Min(n, Cardinality(Free(m)))

NoCall ==
    [op |-> "none", self |-> 0, other |-> 0, pos |-> NULL, val |-> 0, vals |-> <<>>,
     ret |-> NULL, threw |-> FALSE, at |-> 0, freed |-> 0, res |-> FALSE, ub |-> FALSE]

Call(op, self, other) == [NoCall EXCEPT !.op = op, !.self = self, !.other = other]

\* The call ended with result r (of a method that can throw).
Ended(c, r) == [c EXCEPT !.threw = r.threw, !.at = r.at]

Commit(m) ==
    \E c \in {Canon(m)} :
        /\ live' = c.live
        /\ next_node' = c.next_node
        /\ value' = c.value
        /\ size_' = c.size_
        /\ fault' = c.fault

Init ==
    /\ alive = [l \in Lists |-> FALSE]
    /\ live = EmptyMem.live
    /\ next_node = EmptyMem.next_node
    /\ value = EmptyMem.value
    /\ size_ = EmptyMem.size_
    /\ fault = EmptyMem.fault
    /\ last = NoCall

DefaultCtor(l) ==
    /\ ~alive[l]
    /\ alive' = [alive EXCEPT ![l] = TRUE]
    /\ Commit(Mem)
    /\ last' = Call("SingleLinkedList()", l, 0)

InitListCtor(l, values, failAt) ==
    /\ ~alive[l]
    /\ \E r \in {InitListCtorOp(Mem, l, values, failAt)} :
           /\ Commit(r.mem)
           /\ alive' = [alive EXCEPT ![l] = ~r.threw]
           /\ last' = [Ended(Call("SingleLinkedList(initializer_list)", l, 0), r) EXCEPT
                          !.vals = IF r.threw THEN <<>> ELSE values]

CopyCtor(l, other, failAt) ==
    /\ ~alive[l]
    /\ alive[other]
    /\ \E r \in {CopyCtorOp(Mem, l, other, failAt)} :
           /\ Commit(r.mem)
           /\ alive' = [alive EXCEPT ![l] = ~r.threw]
           /\ last' = Ended(Call("SingleLinkedList(const SingleLinkedList&)", l, other), r)

Dtor(l) ==
    /\ alive[l]
    /\ Commit(DtorOp(Mem, l))
    /\ alive' = [alive EXCEPT ![l] = FALSE]
    /\ last' = [Call("~SingleLinkedList", l, 0) EXCEPT !.freed = Len(ClearDeleted(Mem, l))]

PushFront(l, val, failAt) ==
    /\ alive[l]
    /\ \E r \in {PushFrontOp(Mem, l, val, failAt)} :
           /\ Commit(r.mem)
           /\ last' = [Ended(Call("PushFront", l, 0), r) EXCEPT
                          !.val = IF r.threw THEN 0 ELSE val]
    /\ UNCHANGED alive

Clear(l) ==
    /\ alive[l]
    /\ Commit(ClearOp(Mem, l))
    /\ last' = [Call("Clear", l, 0) EXCEPT !.freed = Len(ClearDeleted(Mem, l))]
    /\ UNCHANGED alive

InsertAfter(l, pos, val, failAt) ==
    /\ alive[l]
    /\ pos \in Positions(Mem, l)
    /\ \E r \in {InsertAfterOp(Mem, l, pos, val, failAt)} :
           /\ Commit(r.mem)
           /\ last' = [Ended(Call("InsertAfter", l, 0), r) EXCEPT
                          !.pos = pos, !.val = IF r.threw THEN 0 ELSE val,
                          !.ret = Renamed(r.mem, r.ret)]
    /\ UNCHANGED alive

PopFront(l) ==
    /\ alive[l]
    /\ before_begin(Mem, l) \in ErasePositions(Mem, l)
    /\ Commit(PopFrontOp(Mem, l))
    /\ last' = Call("PopFront", l, 0)
    /\ UNCHANGED alive

EraseAfter(l, pos) ==
    /\ alive[l]
    /\ pos \in ErasePositions(Mem, l)
    /\ \E r \in {EraseAfterOp(Mem, l, pos)} :
           /\ Commit(r.mem)
           /\ last' = [Call("EraseAfter", l, 0) EXCEPT
                          !.pos = pos, !.ret = Renamed(r.mem, r.ret)]
    /\ UNCHANGED alive

Assign(l, rhs, failAt) ==
    /\ alive[l]
    /\ alive[rhs]
    /\ \E r \in {AssignOp(Mem, l, rhs, failAt)} :
           /\ Commit(r.mem)
           /\ last' = Ended(Call("operator=", l, rhs), r)
    /\ UNCHANGED alive

Swap(l, other) ==
    /\ alive[l]
    /\ alive[other]
    /\ Commit(SwapOp(Mem, l, other))
    /\ last' = Call("swap", l, other)
    /\ UNCHANGED alive

FreeSwap(lhs, rhs) ==
    /\ alive[lhs]
    /\ alive[rhs]
    /\ Commit(FreeSwapOp(Mem, lhs, rhs))
    /\ last' = Call("swap(lhs, rhs)", lhs, rhs)
    /\ UNCHANGED alive

Next ==
    \/ \E l \in Lists : DefaultCtor(l)
    \/ \E l \in Lists : \E values \in InitLists(Mem) :
         \E failAt \in FailPoints(Mem, Len(values)) : InitListCtor(l, values, failAt)
    \/ \E l, other \in Lists : \E failAt \in FailPoints(Mem, Len(Chain(Mem, other))) :
         CopyCtor(l, other, failAt)
    \/ \E l \in Lists : Dtor(l)
    \/ \E l \in Lists : \E val \in Values : \E failAt \in FailPoints(Mem, 1) :
         PushFront(l, val, failAt)
    \/ \E l \in Lists : Clear(l)
    \/ \E l \in Lists : \E pos \in Positions(Mem, l) : \E val \in Values :
         \E failAt \in FailPoints(Mem, 1) : InsertAfter(l, pos, val, failAt)
    \/ \E l \in Lists : PopFront(l)
    \/ \E l \in Lists : \E pos \in ErasePositions(Mem, l) : EraseAfter(l, pos)
    \/ \E l, rhs \in Lists : \E failAt \in FailPoints(Mem, Len(Chain(Mem, rhs))) :
         Assign(l, rhs, failAt)
    \/ \E l, other \in Lists : Swap(l, other)
    \/ \E lhs, rhs \in Lists : FreeSwap(lhs, rhs)

Spec == Init /\ [][Next]_vars

---------------------------------------------------------------------------
\* The comparison operators are pure functions of two lists: they are
\* applied to every pair of lists the initializer-list constructor builds
\* within the heap.
InitCmp ==
    \E va, vb \in SeqsUpTo(Values, MaxNodes) :
        /\ Len(va) + Len(vb) <= MaxNodes
        /\ LET m == Canon(InitListCtorOp(InitListCtorOp(EmptyMem, 1, va, 0).mem, 2, vb, 0).mem)
           IN  /\ live = m.live
               /\ next_node = m.next_node
               /\ value = m.value
               /\ size_ = m.size_
               /\ fault = m.fault
        /\ alive = [l \in Lists |-> TRUE]
        /\ last = NoCall

Compared(op, lhs, rhs, r, res) ==
    /\ alive[lhs]
    /\ alive[rhs]
    /\ res \in Outcomes(r)
    /\ last' = [Call(op, lhs, rhs) EXCEPT !.res = res, !.ub = r.ub]
    /\ UNCHANGED <<alive, live, next_node, value, size_, fault>>

OpEq(lhs, rhs, res) == Compared("operator==", lhs, rhs, OperatorEq(Mem, lhs, rhs), res)
OpNe(lhs, rhs, res) == Compared("operator!=", lhs, rhs, OperatorNe(Mem, lhs, rhs), res)

OpLt(lhs, rhs, res) == Compared("operator<", lhs, rhs, OperatorLt(Mem, lhs, rhs), res)
OpLe(lhs, rhs, res) == Compared("operator<=", lhs, rhs, OperatorLe(Mem, lhs, rhs), res)
OpGt(lhs, rhs, res) == Compared("operator>", lhs, rhs, OperatorGt(Mem, lhs, rhs), res)
OpGe(lhs, rhs, res) == Compared("operator>=", lhs, rhs, OperatorGe(Mem, lhs, rhs), res)

NextCmp ==
    \/ \E lhs, rhs \in Lists : \E res \in BOOLEAN : OpEq(lhs, rhs, res)
    \/ \E lhs, rhs \in Lists : \E res \in BOOLEAN : OpNe(lhs, rhs, res)
    \/ \E lhs, rhs \in Lists : \E res \in BOOLEAN : OpLt(lhs, rhs, res)
    \/ \E lhs, rhs \in Lists : \E res \in BOOLEAN : OpLe(lhs, rhs, res)
    \/ \E lhs, rhs \in Lists : \E res \in BOOLEAN : OpGt(lhs, rhs, res)
    \/ \E lhs, rhs \in Lists : \E res \in BOOLEAN : OpGe(lhs, rhs, res)

SpecCmp == InitCmp /\ [][NextCmp]_vars

---------------------------------------------------------------------------
\* Sequence s with v inserted after its k-th element (k = 0: at the front),
\* and s without its k-th element.
InsertAt(s, k, v) == SubSeq(s, 1, k) \o <<v>> \o SubSeq(s, k + 1, Len(s))
RemoveAt(s, k) == SubSeq(s, 1, k - 1) \o SubSeq(s, k + 1, Len(s))

\* How many elements of list l precede the element after position p.
PosIndex(m, l, p) == IF p = HeadOf(l) THEN 0 ELSE IndexIn(Chain(m, l), p)

NoDuplicates(s) == \A i, j \in DOMAIN s : i # j => s[i] # s[j]

\* Advancing iterator p exactly n times is defined at every step and reaches
\* end(), and no fewer advances do.
RECURSIVE EndAfter(_, _, _)
EndAfter(m, p, n) ==
    IF n = 0 THEN p = NULL
    ELSE p \in m.live /\ EndAfter(m, Incr(m, p), n - 1)

SizesMatch(m) == \A l \in Lists : GetSize(m, l) = Len(Chain(m, l))

\* C1: operator==(a, b) returns true exactly when a and b have the same
\* length and pairwise equal elements in order, and operator!= returns the
\* negation.
C1_EqualityIffSameElements ==
    /\ last.op = "operator==" =>
          (last.res <=> Elems(Mem, last.self) = Elems(Mem, last.other))
    /\ last.op = "operator!=" =>
          (last.res <=> Elems(Mem, last.self) # Elems(Mem, last.other))

\* C2: in every reachable state every list's chain is acyclic and
\* null-terminated, GetSize() is the number of Nodes reachable from the
\* sentinel, and advancing begin() GetSize() times reaches end(), not earlier.
C2_SizeIsChainLength ==
    \A l \in Lists :
        LET c == Chain(Mem, l)
        IN  /\ NoDuplicates(c)
            /\ IF c = <<>> THEN begin(Mem, l) = NULL ELSE next_node[c[Len(c)]] = NULL
            /\ GetSize(Mem, l) = Len(c)
            /\ EndAfter(Mem, begin(Mem, l), GetSize(Mem, l))

\* C2's case: after interleaved insertions and removals two lists hold
\* different numbers of elements.
C2_Witness ==
    /\ last.op = "EraseAfter"
    /\ last.pos \in Nodes
    /\ size_[last.self] = 2
    /\ \E o \in Lists : alive[o] /\ size_[o] = 1

\* C3: when operator= throws (the copy of rhs failed at its first, a middle
\* or its last element), lhs has the element sequence and size it had before
\* the call, and rhs is unchanged.
C3_AssignStrongGuarantee ==
    [][(last'.op = "operator=" /\ last'.threw) =>
         \A l \in {last'.self, last'.other} :
            /\ Elems(Mem', l) = Elems(Mem, l)
            /\ GetSize(Mem', l) = GetSize(Mem, l)]_vars

\* C3's case: the copy failed after Nodes of it were built (at a later
\* element than the first), the left-hand side holding elements.
C3_Witness ==
    /\ last.op = "operator="
    /\ last.threw
    /\ last.at >= 2
    /\ last.self # last.other
    /\ Elems(Mem, last.self) # <<>>

\* C4: when InsertAfter throws while creating the Node, the list's links,
\* element sequence and size are as before the call.
C4_InsertAfterStrongGuarantee ==
    [][(last'.op = "InsertAfter" /\ last'.threw) =>
         /\ next_node' = next_node
         /\ live' = live
         /\ value' = value
         /\ size_' = size_
         /\ fault' = fault
         /\ Elems(Mem', last'.self) = Elems(Mem, last'.self)]_vars

\* C4's case: the Node's creation failed in an insertion after a real Node
\* of a list of several elements.
C4_Witness ==
    /\ last.op = "InsertAfter"
    /\ last.threw
    /\ last.pos \in Nodes
    /\ size_[last.self] >= 2

\* C5: InsertAfter(pos, value) yields the old sequence with value inserted
\* right after pos's position, the size one larger, and returns an iterator
\* to the new Node, which holds value.
C5_InsertAfterEffect ==
    [][(last'.op = "InsertAfter" /\ ~last'.threw) =>
         LET l == last'.self
             k == PosIndex(Mem, l, last'.pos)
         IN  /\ Elems(Mem', l) = InsertAt(Elems(Mem, l), k, last'.val)
             /\ GetSize(Mem', l) = GetSize(Mem, l) + 1
             /\ last'.ret = Chain(Mem', l)[k + 1]
             /\ Deref(Mem', last'.ret) = last'.val]_vars

\* C5's case: an insertion in the middle of a list.
C5_Witness ==
    /\ last.op = "InsertAfter"
    /\ ~last.threw
    /\ Len(Chain(Mem, last.self)) >= 3
    /\ Chain(Mem, last.self)[2] = last.ret

\* C6: EraseAfter(pos) removes the element after pos and nothing else, makes
\* the size one smaller and returns an iterator to the Node that followed
\* the removed one, end() when it was the last; PopFront() removes the first
\* element, as EraseAfter(before_begin()) does.
C6_EraseAfterEffect ==
    [][/\ last'.op = "EraseAfter" =>
            LET l == last'.self
                k == PosIndex(Mem, l, last'.pos)
            IN  /\ Elems(Mem', l) = RemoveAt(Elems(Mem, l), k + 1)
                /\ GetSize(Mem', l) = GetSize(Mem, l) - 1
                /\ last'.ret = IF k + 1 = Len(Elems(Mem, l)) THEN end(Mem', l)
                               ELSE Chain(Mem', l)[k + 1]
       /\ last'.op = "PopFront" =>
            LET l == last'.self
            IN  /\ Elems(Mem', l) = Tail(Elems(Mem, l))
                /\ GetSize(Mem', l) = GetSize(Mem, l) - 1
                /\ Mem' = Canon(EraseAfterOp(Mem, l, before_begin(Mem, l)).mem)]_vars

\* C6's case: the element between two others was removed (the iterator
\* returned references the one after it).
C6_Witness ==
    /\ last.op = "EraseAfter"
    /\ last.pos \in Nodes
    /\ last.ret # NULL

Mutators == {"PushFront", "InsertAfter", "EraseAfter", "PopFront", "Clear"}

Copies == {"SingleLinkedList(const SingleLinkedList&)", "operator="}

\* C7: a copy shares no Node with its source: no Node is reachable from the
\* sentinels of two lists, the Nodes of a copy are not Nodes its source had,
\* and a mutation of one list leaves the other's elements and size unchanged.
C7_CopiesShareNothing ==
    [][/\ \A l1, l2 \in Lists :
            l1 # l2 => ChainSet(Mem', l1) \cap ChainSet(Mem', l2) = {}
       /\ (last'.op \in Copies /\ ~last'.threw /\ last'.self # last'.other) =>
            LET r == IF last'.op = "operator="
                     THEN AssignOp(Mem, last'.self, last'.other, 0)
                     ELSE CopyCtorOp(Mem, last'.self, last'.other, 0)
            IN  /\ ChainSet(r.mem, last'.self) \cap ChainSet(r.mem, last'.other) = {}
                /\ Chain(r.mem, last'.other) = Chain(Mem, last'.other)
                /\ Len(Chain(r.mem, last'.self)) = Len(Chain(Mem, last'.other))
       /\ last'.op \in Mutators =>
            \A o \in Lists \ {last'.self} :
               /\ Elems(Mem', o) = Elems(Mem, o)
               /\ GetSize(Mem', o) = GetSize(Mem, o)]_vars

\* C7's case: one of two lists of equal elements (a list and its copy) was
\* mutated by PushFront, and the other still holds the elements.
C7_Witness ==
    /\ last.op = "PushFront"
    /\ ~last.threw
    /\ \E o \in Lists \ {last.self} :
          /\ alive[o]
          /\ Elems(Mem, o) # <<>>
          /\ Elems(Mem, o) = Tail(Elems(Mem, last.self))

\* The Nodes reachable from some list's sentinel.
Reachable(m) == UNION {ChainSet(m, o) : o \in Objects}

\* C8: a = b leaves a with b's elements and size and b unchanged (also when
\* a and b are the same list, and when b is empty), and destroys every Node a
\* owned before, leaking none.
C8_AssignEffect ==
    [][(last'.op = "operator=" /\ ~last'.threw) =>
         LET a == last'.self
             b == last'.other
             r == AssignOp(Mem, a, b, 0)
         IN  /\ Elems(Mem', a) = Elems(Mem, b)
             /\ GetSize(Mem', a) = GetSize(Mem, b)
             /\ Elems(Mem', b) = Elems(Mem, b)
             /\ GetSize(Mem', b) = GetSize(Mem, b)
             /\ Mem' = Canon(r.mem)
             /\ ChainSet(Mem, a) \cap r.mem.live = {}
             /\ r.mem.live = Reachable(r.mem)
             /\ live' = Reachable(Mem')]_vars

\* C8's case: a list of several elements was assigned to itself.
C8_Witness ==
    /\ last.op = "operator="
    /\ ~last.threw
    /\ last.self = last.other
    /\ Len(Elems(Mem, last.self)) >= 2

\* An iterator that referenced position p of list a in memory m0 is, in the
\* memory m1 after a.swap(b), a position of list b: it references the same
\* Node, and b.InsertAfter and b.EraseAfter called with it insert and remove
\* in b's element sequence and leave every size_ equal to its Node count.
IteratorMovesWithSwap(m0, m1, a, b, p) ==
    LET k == PosIndex(m0, a, p)
    IN  /\ p \in Positions(m1, b)
        /\ p \in m0.live => (p \in m1.live /\ Deref(m1, p) = Deref(m0, p))
        /\ \A val \in Values :
              LET r == InsertAfterOp(m1, b, p, val, 0)
              IN  ~r.threw =>
                     /\ Elems(r.mem, b) = InsertAt(Elems(m0, a), k, val)
                     /\ SizesMatch(r.mem)
        /\ m1.next_node[p] # NULL =>
              LET r == EraseAfterOp(m1, b, p)
              IN  /\ Elems(r.mem, b) = RemoveAt(Elems(m0, a), k + 1)
                  /\ SizesMatch(r.mem)

\* C9 as stated: after A.swap(B) every iterator obtained from A, that of
\* before_begin() included, is a position of B.
C9_EveryIteratorMovesWithSwap ==
    [][last'.op = "swap" =>
         \A p \in Positions(Mem, last'.self) :
            IteratorMovesWithSwap(Mem, SwapOp(Mem, last'.self, last'.other),
                                  last'.self, last'.other, p)]_vars

\* C9 as amended: after A.swap(B) every iterator obtained from A that
\* references a real Node (begin() of a non-empty A, or a position reached
\* by advancing short of end()) references the same Node and is a position
\* of B; the iterator of A.before_begin() still references A's sentinel and
\* stays a position of A.
C9_NodeIteratorsMoveWithSwap ==
    [][last'.op = "swap" =>
         LET a == last'.self
             b == last'.other
             m1 == SwapOp(Mem, a, b)
         IN  /\ Mem' = Canon(m1)
             /\ \A p \in ChainSet(Mem, a) : IteratorMovesWithSwap(Mem, m1, a, b, p)
             /\ before_begin(Mem, a) = before_begin(m1, a)
             /\ before_begin(Mem, a) \in Positions(m1, a)]_vars

\* C9's case: two different lists were swapped, the one that was A holding
\* two elements, and a Node is left to insert.
C9_Witness ==
    /\ last.op = "swap"
    /\ last.self # last.other
    /\ Len(Elems(Mem, last.other)) = 2
    /\ Len(Elems(Mem, last.self)) = 1
    /\ Free(Mem) # {}

\* C10: after A.swap(B) each list has the element sequence and size the
\* other had (A and B may be empty or the same list); no Node is created or
\* destroyed; swapping again restores both.
C10_SwapExchanges ==
    [][last'.op \in {"swap", "swap(lhs, rhs)"} =>
         LET a == last'.self
             b == last'.other
             m1 == SwapOp(Mem, a, b)
         IN  /\ Elems(Mem', a) = Elems(Mem, b)
             /\ Elems(Mem', b) = Elems(Mem, a)
             /\ GetSize(Mem', a) = GetSize(Mem, b)
             /\ GetSize(Mem', b) = GetSize(Mem, a)
             /\ Mem' = Canon(m1)
             /\ m1.live = Mem.live
             /\ Chain(m1, a) = Chain(Mem, b)
             /\ Chain(m1, b) = Chain(Mem, a)
             /\ SwapOp(m1, a, b) = Mem]_vars

\* C10's case: an empty list was swapped with one of several elements.
C10_Witness ==
    /\ last.op = "swap"
    /\ last.self # last.other
    /\ Elems(Mem, last.other) = <<>>
    /\ Len(Elems(Mem, last.self)) >= 2

---------------------------------------------------------------------------
RECURSIVE Reverse(_)
Reverse(s) == IF s = <<>> THEN <<>> ELSE Append(Reverse(Tail(s)), Head(s))

\* PushFront(vals[1]); ...; PushFront(vals[n]) on list self, none throwing.
RECURSIVE PushFrontAll(_, _, _)
PushFrontAll(m, self, vals) ==
    IF vals = <<>> THEN m
    ELSE PushFrontAll(PushFrontOp(m, self, Head(vals), 0).mem, self, Tail(vals))

\* C11: PushFront(v) yields the old sequence with v prepended, the former
\* Nodes behind the new one in their former order, and the size one larger;
\* PushFront calls with values v1..vn on an empty list leave it iterating
\* vn..v1 with GetSize() n.
C11_PushFrontPrepends ==
    [][(last'.op = "PushFront" /\ ~last'.threw) =>
         LET l == last'.self
             r == PushFrontOp(Mem, l, last'.val, 0)
         IN  /\ Elems(Mem', l) = <<last'.val>> \o Elems(Mem, l)
             /\ GetSize(Mem', l) = GetSize(Mem, l) + 1
             /\ Mem' = Canon(r.mem)
             /\ Tail(Chain(r.mem, l)) = Chain(Mem, l)
             /\ \A i \in DOMAIN Chain(Mem, l) :
                   Deref(r.mem, Chain(Mem, l)[i]) = Deref(Mem, Chain(Mem, l)[i])
             /\ IsEmpty(Mem, l) =>
                   \A vals \in SeqsUpTo(Values, Cardinality(Free(Mem))) :
                      LET m == PushFrontAll(Mem, l, vals)
                      IN  /\ Elems(m, l) = Reverse(vals)
                          /\ GetSize(m, l) = Len(vals)]_vars

\* C11's case: a value was pushed in front of two elements, the first of
\* them a different value.
C11_Witness ==
    /\ last.op = "PushFront"
    /\ ~last.threw
    /\ Len(Elems(Mem, last.self)) >= 3
    /\ Elems(Mem, last.self)[2] # last.val

Constructions ==
    {"SingleLinkedList(initializer_list)", "SingleLinkedList(const SingleLinkedList&)"}

\* C12: a list constructed from an initializer list iterates exactly the
\* list's values in their order, and a list copy-constructed from another
\* iterates exactly the source's elements in source order (the source left
\* as it was); in both GetSize() is the source's length, 0 included.
C12_ConstructionPreservesOrder ==
    [][(last'.op \in Constructions /\ ~last'.threw) =>
         LET l == last'.self
             source == IF last'.op = "SingleLinkedList(initializer_list)"
                       THEN last'.vals ELSE Elems(Mem, last'.other)
         IN  /\ alive'[l]
             /\ Elems(Mem', l) = source
             /\ GetSize(Mem', l) = Len(source)
             /\ EndAfter(Mem', begin(Mem', l), Len(source))
             /\ last'.op = "SingleLinkedList(const SingleLinkedList&)" =>
                   /\ Elems(Mem', last'.other) = source
                   /\ GetSize(Mem', last'.other) = Len(source)]_vars

\* C12's case: a list was copy-constructed from a list of several elements
\* that are not all the same value.
C12_Witness ==
    /\ last.op = "SingleLinkedList(const SingleLinkedList&)"
    /\ ~last.threw
    /\ Len(Elems(Mem, last.self)) >= 2
    /\ Elems(Mem, last.self)[1] # Elems(Mem, last.self)[2]

\* C13: Clear() ends after one iteration per Node and leaves the list
\* empty: GetSize() is 0, IsEmpty() is true, begin() equals end(); each Node
\* the list owned is deleted exactly once and no other; the sentinel remains,
\* and PushFront and InsertAfter(before_begin(), ...) on the cleared list
\* give a one-element list.
C13_ClearEmpties ==
    [][last'.op = "Clear" =>
         \E l \in {last'.self} :
         \E r \in {ClearOp(Mem, l)} :
         \E d \in {ClearDeleted(Mem, l)} :
             /\ Mem' = Canon(r)
             /\ Len(d) = GetSize(Mem, l)
             /\ GetSize(Mem', l) = 0
             /\ IsEmpty(Mem', l)
             /\ begin(Mem', l) = end(Mem', l)
             /\ NoDuplicates(d)
             /\ {d[i] : i \in DOMAIN d} = ChainSet(Mem, l)
             /\ r.live = Mem.live \ ChainSet(Mem, l)
             /\ HeadOf(l) \in DOMAIN r.next_node
             /\ \A val \in Values :
                   /\ \E pf \in {PushFrontOp(r, l, val, 0)} :
                         ~pf.threw =>
                            /\ Elems(pf.mem, l) = <<val>>
                            /\ GetSize(pf.mem, l) = 1
                   /\ \E ia \in {InsertAfterOp(r, l, before_begin(r, l), val, 0)} :
                         ~ia.threw =>
                            /\ Elems(ia.mem, l) = <<val>>
                            /\ GetSize(ia.mem, l) = 1
                            /\ ia.ret = begin(ia.mem, l)]_vars

\* C13's case: a list of several elements was cleared while another list
\* holds elements.
C13_Witness ==
    /\ last.op = "Clear"
    /\ last.freed >= 2
    /\ \E o \in Lists \ {last.self} : alive[o] /\ Elems(Mem, o) # <<>>

\* C14: in every reachable state the three emptiness observations of a
\* list agree: IsEmpty() is true iff GetSize() is 0 iff begin() equals end();
\* all three hold of a list just default-constructed.
C14_EmptinessAgrees ==
    /\ \A l \in Lists :
          /\ IsEmpty(Mem, l) <=> (GetSize(Mem, l) = 0)
          /\ (GetSize(Mem, l) = 0) <=> (begin(Mem, l) = end(Mem, l))
    /\ last.op = "SingleLinkedList()" =>
          /\ IsEmpty(Mem, last.self)
          /\ GetSize(Mem, last.self) = 0
          /\ begin(Mem, last.self) = end(Mem, last.self)

\* C14's case: a list was default-constructed next to a list that holds
\* elements, so that both an empty and a non-empty list are observed.
C14_Witness ==
    /\ last.op = "SingleLinkedList()"
    /\ alive[last.self]
    /\ \E o \in Lists \ {last.self} :
          alive[o] /\ ~IsEmpty(Mem, o) /\ GetSize(Mem, o) >= 2

\* Sequence s is a proper prefix of sequence t.
ProperPrefix(s, t) == Len(s) < Len(t) /\ SubSeq(t, 1, Len(s)) = s

\* Sequence s precedes sequence t lexicographically: s is a proper prefix of
\* t, or at the first index where they differ s holds the smaller element.
LexLess(s, t) ==
    \/ ProperPrefix(s, t)
    \/ \E k \in DOMAIN s \cap DOMAIN t :
          /\ SubSeq(s, 1, k - 1) = SubSeq(t, 1, k - 1)
          /\ s[k] < t[k]

\* C15: a < b is the lexicographic comparison of the element sequences (the
\* first differing element decides, a proper prefix is smaller, equal
\* sequences are not less); a > b iff b < a, a <= b iff not (b < a), and
\* a >= b iff not (a < b).
C15_OrderingIsLexicographic ==
    LET a == last.self
        b == last.other
    IN  /\ last.op = "operator<" =>
              /\ last.res <=> LexLess(Elems(Mem, a), Elems(Mem, b))
              /\ ProperPrefix(Elems(Mem, a), Elems(Mem, b)) => last.res
              /\ Elems(Mem, a) = Elems(Mem, b) => ~last.res
        /\ last.op = "operator>" => (last.res <=> OperatorLt(Mem, b, a).res)
        /\ last.op = "operator<=" => (last.res <=> ~OperatorLt(Mem, b, a).res)
        /\ last.op = "operator>=" => (last.res <=> ~OperatorLt(Mem, a, b).res)
        /\ last.op \in {"operator<", "operator<=", "operator>", "operator>="} => ~last.ub

\* C15's case: a non-empty list was found smaller than a list it is a
\* proper prefix of.
C15_Witness ==
    /\ last.op = "operator<"
    /\ last.res
    /\ Elems(Mem, last.self) # <<>>
    /\ ProperPrefix(Elems(Mem, last.self), Elems(Mem, last.other))

\* How many of the conditions in S hold.
HowManyHold(S) == Cardinality({i \in DOMAIN S : S[i]})

\* C16: equality is symmetric and consistent with the ordering: (a == b)
\* equals (b == a), a == b holds iff neither a < b nor b < a, and exactly
\* one of a < b, a == b, a > b holds.
C16_EqualityConsistentWithOrdering ==
    last.op = "operator==" =>
        LET a == last.self
            b == last.other
            lt == OperatorLt(Mem, a, b).res
            gt == OperatorGt(Mem, a, b).res
        IN  /\ \A ba \in Outcomes(OperatorEq(Mem, b, a)) : last.res <=> ba
            /\ last.res <=> (~lt /\ ~OperatorLt(Mem, b, a).res)
            /\ HowManyHold(<<lt, last.res, gt>>) = 1

\* The live lists from whose sentinel Node n is reached.
Owners(m, n) == {l \in Lists : alive[l] /\ n \in ChainSet(m, l)}

\* C17: over every sequence of calls honouring the preconditions, those in
\* which a construction or an assignment fails part-way included, no Node is
\* deleted twice and none is written after its deletion; no link leads to a
\* destroyed Node; every Node allocated and not destroyed is reached from
\* the sentinel of exactly one live list, once; the constructors' and the
\* assignment's local lists and the destroyed lists hold no Node.
C17_NodesOwnedOrDestroyed ==
    /\ ~fault
    /\ DOMAIN next_node = Sentinels \cup live
    /\ DOMAIN value = live
    /\ \A p \in DOMAIN next_node : next_node[p] \in live \cup {NULL}
    /\ \A n \in live : Cardinality(Owners(Mem, n)) = 1
    /\ \A l \in Lists : NoDuplicates(Chain(Mem, l))
    /\ \A o \in Objects :
          (o \notin Lists \/ ~alive[o]) => (begin(Mem, o) = NULL /\ GetSize(Mem, o) = 0)

\* C17's case: an initializer-list construction failed at its third element
\* or later, after Nodes had been built in tmp, next to a list that holds
\* elements.
C17_Witness ==
    /\ last.op = "SingleLinkedList(initializer_list)"
    /\ last.threw
    /\ last.at >= 3
    /\ ~alive[last.self]
    /\ \E o \in Lists : alive[o] /\ Elems(Mem, o) # <<>>

\* The values *it yields while iterator p is advanced to end().
ValuesFrom(m, p) ==
    LET c == Range(m, p, NULL, MaxNodes + 1)
    IN  [i \in DOMAIN c |-> Deref(m, c[i])]

\* An iterator that referenced Node p in memory m0 references, in memory m1,
\* the same Node with the same value, and advancing it yields expected.
IteratorStable(m0, m1, p, expected) ==
    /\ p \in m1.live
    /\ Deref(m1, p) = Deref(m0, p)
    /\ ValuesFrom(m1, p) = expected

\* The iterators into the lists other than l are as they were.
OtherIteratorsStable(m0, m1, l) ==
    \A p \in m0.live \ ChainSet(m0, l) : IteratorStable(m0, m1, p, ValuesFrom(m0, p))

\* The iterators into list l are stable across a call that turned memory m0
\* into m1 and the element sequence of l into updated: the Node that was the
\* i-th of l is the newIndex[i]-th Node of the updated list (0: it was
\* removed, and is destroyed).
IteratorsStable(m0, m1, l, updated, newIndex) ==
    /\ \A i \in DOMAIN Chain(m0, l) :
          IF newIndex[i] = 0 THEN Chain(m0, l)[i] \notin m1.live
          ELSE IteratorStable(m0, m1, Chain(m0, l)[i],
                              SubSeq(updated, newIndex[i], Len(updated)))
    /\ before_begin(m1, l) = before_begin(m0, l)
    /\ ValuesFrom(m1, Incr(m1, before_begin(m0, l))) = updated
    /\ OtherIteratorsStable(m0, m1, l)

\* C18: after PushFront, InsertAfter or EraseAfter every iterator obtained
\* before the call that references a Node other than the removed one
\* references the same Node with the same value, and advancing it yields
\* the elements that follow that Node in the updated sequence; the
\* before_begin() iterator still precedes the updated sequence; only the
\* removed Node is destroyed.
C18_IteratorsStable ==
    [][/\ (last'.op = "PushFront" /\ ~last'.threw) =>
            \E l \in {last'.self} :
            \E r \in {PushFrontOp(Mem, l, last'.val, 0)} :
                /\ Mem' = Canon(r.mem)
                /\ IteratorsStable(Mem, r.mem, l, <<last'.val>> \o Elems(Mem, l),
                                   [i \in DOMAIN Chain(Mem, l) |-> i + 1])
       /\ (last'.op = "InsertAfter" /\ ~last'.threw) =>
            \E l \in {last'.self} :
            \E r \in {InsertAfterOp(Mem, l, last'.pos, last'.val, 0)} :
            \E k \in {PosIndex(Mem, l, last'.pos)} :
                /\ Mem' = Canon(r.mem)
                /\ IteratorsStable(Mem, r.mem, l, InsertAt(Elems(Mem, l), k, last'.val),
                                   [i \in DOMAIN Chain(Mem, l) |-> IF i <= k THEN i ELSE i + 1])
       /\ last'.op = "EraseAfter" =>
            \E l \in {last'.self} :
            \E r \in {EraseAfterOp(Mem, l, last'.pos)} :
            \E k \in {PosIndex(Mem, l, last'.pos)} :
                /\ Mem' = Canon(r.mem)
                /\ IteratorsStable(Mem, r.mem, l, RemoveAt(Elems(Mem, l), k + 1),
                                   [i \in DOMAIN Chain(Mem, l) |->
                                       IF i <= k THEN i ELSE IF i = k + 1 THEN 0 ELSE i - 1])
                /\ r.mem.live = Mem.live \ {Chain(Mem, l)[k + 1]}]_vars

\* C18's case: a Node was erased from between two Nodes of a list that
\* still holds three, iterators to all of which existed before.
C18_Witness ==
    /\ last.op = "EraseAfter"
    /\ last.pos \in Nodes
    /\ last.ret # NULL
    /\ Len(Chain(Mem, last.self)) = 3

=============================================================================
